---- MODULE Spec2Model ----
(***************************************************************************)
(* The real-time connection hub of api-gotalk: the Hub (connection table,  *)
(* control loop, delivery), the Redis pub/sub bridge, the per-connection   *)
(* pumps and the WebSocket event dispatcher.                               *)
(*                                                                         *)
(* Hub operations are written as functions from a world record w (the      *)
(* fields the Go code reads and writes) to the world after the call, so    *)
(* that a handler that makes several calls is one action.                  *)
(***************************************************************************)
EXTENDS Integers, Sequences, FiniteSets, TLC

\* ---------------------------------------------------------------- bounds
\* Server processes sharing the Redis channel.
NumProcs == 2
\* Connection objects that may ever be created (each registers once).
MaxConns == 3
\* Capacity of Client.send: make(chan []byte, 256), scaled down.
SendCap == 2
\* Calls of SendToUser / SendToUsers made by the hub's callers.
MaxSends == 3
\* Messages a subscriber's channel buffers before the bus drops further ones
\* (the go-redis subscription channel is bounded), scaled down.
MaxBus == 2

Procs == 1 .. NumProcs
\* The goroutines of a process that take Hub.mu: the control loop (Run), the
\* subscriber (subscribeRedis) and a caller of IsUserOnline / GetOnlineUserIDs.
Tasks == {"run", "sub", "api"}
Conns == 1 .. MaxConns
Users == {"A", "B"}
\* uuid.Nil, the zero value of a user id
Nil == "nil"
\* a nil *model.WSEvent
NULL == [null |-> TRUE]

\* claims.UserID of the token a connection was opened with
UserOf(c) == IF c % 3 = 0 THEN "B" ELSE "A"

VARIABLES
    clients,    \* Hub.clients per process: user -> set of connections (only users with an entry)
    send,       \* Client.send per connection: the buffered events
    closed,     \* whether Client.send has been closed
    bus,        \* per process: the Redis messages its subscriber has still to read
    hubState,   \* per process: "down" | "running" | "panicked" | "stopped" (context cancelled)
    cstate,     \* per connection: "idle" | "registering" | "active" | "closing" | "closed"
    cproc,      \* per connection: the process it connected to (0: none yet)
    notif,      \* per process and user: the presence notifications emitted, in order
    evicted,    \* connections a delivery removed because their queue was full
    nSends,     \* calls made into the hub by its callers so far
    sock,       \* per connection: the websocket, "open" | "closed" (closed or broken)
    wdone,      \* per connection: whether WritePump has returned
    wn,         \* per connection: queued events WritePump still adds to the frame it writes
    wbuf,       \* per connection: the events written into the frame not yet flushed
    wire,       \* per connection: what has been written to the peer, in order
    held,       \* per process and task: where the task stands with Hub.mu
    cbdone,     \* per process and user: the onStatusChange calls (positions in notif) that have run
    stored      \* per user: the online status the callback stored last

\* what the pumps of the connections keep besides the queue
pumpVars == <<sock, wdone, wn, wbuf, wire>>

\* the guard of the table and the presence callbacks
auxVars == <<held, cbdone, stored>>

vars == <<clients, send, closed, bus, hubState, cstate, cproc, notif, evicted, nSends,
          sock, wdone, wn, wbuf, wire, held, cbdone, stored>>

\* ------------------------------------------------------------ JSON codec
\* model.WSEvent as Go value: [Type, Payload]; as JSON: [type, payload].
WSEvent(t, pl) == [Type |-> t, Payload |-> pl]

MarshalWSEvent(ev) ==
    IF ev = NULL THEN NULL ELSE [type |-> ev.Type, payload |-> ev.Payload]

UnmarshalWSEvent(js) ==
    IF js = NULL THEN NULL
    ELSE WSEvent(IF "type" \in DOMAIN js THEN js.type ELSE "",
                 IF "payload" \in DOMAIN js THEN js.payload ELSE NULL)

\* model.OnlineEvent
OnlineEvent(u, online) == [user_id |-> u, is_online |-> online]

\* ws.TargetedEvent marshalled: uuid.UUID is an array, so omitempty never omits it.
MarshalTargeted(u, ev) == [target_user_id |-> u, event |-> MarshalWSEvent(ev)]

\* json.Unmarshal into a TargetedEvent: absent keys leave the zero values.
UnmarshalTargeted(js) ==
    [TargetUserID |-> IF "target_user_id" \in DOMAIN js THEN js.target_user_id ELSE Nil,
     Event        |-> IF "event" \in DOMAIN js THEN UnmarshalWSEvent(js.event) ELSE NULL]

\* ------------------------------------------------------------- the world
World ==
    [clients |-> clients, send |-> send, closed |-> closed, bus |-> bus,
     hub |-> hubState, notif |-> notif, evicted |-> evicted,
     pubs |-> <<>>, calls |-> <<>>]

Install(w) ==
    /\ clients' = w.clients
    /\ send' = w.send
    /\ closed' = w.closed
    /\ bus' = w.bus
    /\ hubState' = w.hub
    /\ notif' = w.notif
    /\ evicted' = w.evicted

Alive(p) == hubState[p] = "running"
\* the process runs: its goroutines take steps (a panic ends the process)
ProcUp(p) == hubState[p] \in {"running", "stopped"}
AliveProcs == {p \in Procs : Alive(p)}
\* A publish reaches the subscribers of the running processes, or fails.
Outcomes == {AliveProcs, {}}

\* -------------------------------------------------------------- the hub
\* rdb.Publish(redisChannel, jsonData): rcv are the processes whose subscriber
\* receives it; {} is a failed publish or a message the bus dropped.
publishToRedis(w, data, rcv) ==
    [w EXCEPT !.bus = [q \in Procs |-> IF q \in rcv /\ Len(@[q]) < MaxBus
                                        THEN Append(@[q], data) ELSE @[q]],
              !.pubs = Append(@, [data |-> data, rcv |-> rcv]),
              !.calls = Append(@, "Publish")]

\* go h.onStatusChange(userID, online), then the publish of the presence event
notifyStatus(w, p, u, online, rcv) ==
    publishToRedis(
        [w EXCEPT !.notif[p][u] = @ \o <<[kind |-> "callback", online |-> online],
                                         [kind |-> "publish", online |-> online]>>,
                  !.calls = Append(@, "onStatusChange")],
        MarshalWSEvent(WSEvent(IF online THEN "online" ELSE "offline", OnlineEvent(u, online))),
        rcv)

\* mutant: every connection is taken for the user's first
firstConnectionAlways(tbl, u) == TRUE

\* _, ok := h.clients[client.UserID]; !ok
firstConnection(tbl, u) == u \notin DOMAIN tbl

\* mutant: every register request announces the user as online
addClientAnnounces(w, p, c, rcv) ==
    LET u == UserOf(c)
        w0 == IF firstConnection(w.clients[p], u)
              THEN [w EXCEPT !.clients[p] = (u :> {}) @@ @]
              ELSE w
        w1 == notifyStatus(w0, p, u, TRUE, rcv)
    IN  [w1 EXCEPT !.clients[p][u] = @ \cup {c}]

\* Hub.addClient
addClient(w, p, c, rcv) ==
    LET u == UserOf(c)
        w1 == IF firstConnection(w.clients[p], u)
              THEN notifyStatus([w EXCEPT !.clients[p] = (u :> {}) @@ @], p, u, TRUE, rcv)
              ELSE w
    IN  [w1 EXCEPT !.clients[p][u] = @ \cup {c}]

\* delete(h.clients, userID)
deleteUser(tbl, u) == [x \in DOMAIN tbl \ {u} |-> tbl[x]]

\* mutant: the unregister request is taken and nothing is removed
removeClientKeeps(w, p, c, rcv) == w

removeClient(w, p, c, rcv) ==
    LET u == UserOf(c) IN
    IF u \notin DOMAIN w.clients[p] THEN w
    ELSE LET w1 == [w EXCEPT !.clients[p][u] = @ \ {c}] IN
         IF w1.closed[c]
         THEN \* close of closed channel: the control loop's goroutine panics
              [w1 EXCEPT !.hub[p] = "panicked"]
         ELSE LET w2 == [w1 EXCEPT !.closed[c] = TRUE] IN
              IF w2.clients[p][u] = {}
              THEN notifyStatus([w2 EXCEPT !.clients[p] = deleteUser(@, u)], p, u, FALSE, rcv)
              ELSE w2

\* mutant: a full queue drops the event and leaves the connection registered
selectSendDrop(w, p, u, c, data) ==
    IF w.closed[c] THEN [w EXCEPT !.hub[p] = "panicked"]
    ELSE IF Len(w.send[c]) < SendCap THEN [w EXCEPT !.send[c] = Append(@, data)]
    ELSE w

\* mutant: a full queue is closed and the connection stays in the table
selectSendLeaves(w, p, u, c, data) ==
    IF w.closed[c] THEN [w EXCEPT !.hub[p] = "panicked"]
    ELSE IF Len(w.send[c]) < SendCap THEN [w EXCEPT !.send[c] = Append(@, data)]
    ELSE [w EXCEPT !.closed[c] = TRUE, !.evicted = @ \cup {c}]

\* select { case client.send <- data: default: close(client.send); delete(clients, client) }
selectSend(w, p, u, c, data) ==
    IF w.closed[c]
    THEN \* send on closed channel
         [w EXCEPT !.hub[p] = "panicked"]
    ELSE IF Len(w.send[c]) < SendCap
         THEN [w EXCEPT !.send[c] = Append(@, data)]
         ELSE [w EXCEPT !.closed[c] = TRUE,
                        !.clients[p][u] = @ \ {c},
                        !.evicted = @ \cup {c}]

\* for client := range clients { select ... }
RECURSIVE rangeClients(_, _, _, _, _)
rangeClients(w, p, u, cs, data) ==
    IF cs = {} \/ w.hub[p] # "running" THEN w
    ELSE LET c == CHOOSE x \in cs : TRUE
         IN  rangeClients(selectSend(w, p, u, c, data), p, u, cs \ {c}, data)

\* mutant: delivering to a user without an entry leaves an empty entry behind
sendToLocalUserStale(w, p, u, ev) ==
    IF u \in DOMAIN w.clients[p]
    THEN rangeClients(w, p, u, w.clients[p][u], MarshalWSEvent(ev))
    ELSE [w EXCEPT !.clients[p] = (u :> {}) @@ @]

\* Hub.sendToLocalUser
sendToLocalUser(w, p, u, ev) ==
    IF u \in DOMAIN w.clients[p]
    THEN rangeClients(w, p, u, w.clients[p][u], MarshalWSEvent(ev))
    ELSE w

\* for _, clients := range h.clients { ... }
RECURSIVE rangeUsers(_, _, _, _)
rangeUsers(w, p, us, data) ==
    IF us = {} \/ w.hub[p] # "running" THEN w
    ELSE LET u == CHOOSE x \in us : TRUE
         IN  rangeUsers(rangeClients(w, p, u, w.clients[p][u], data), p, us \ {u}, data)

broadcastToLocal(w, p, ev) ==
    rangeUsers(w, p, DOMAIN w.clients[p], MarshalWSEvent(ev))

\* mutant: the target user id is ignored
isTargetedNever(t) == FALSE

\* targeted.TargetUserID != uuid.Nil
isTargeted(t) == t.TargetUserID # Nil

\* one message read from the subscription channel
subscribeRedis(w, p, msg) ==
    LET t == UnmarshalTargeted(msg) IN
    IF isTargeted(t) THEN sendToLocalUser(w, p, t.TargetUserID, t.Event)
    ELSE IF t.Event # NULL THEN broadcastToLocal(w, p, t.Event)
    ELSE w

\* mutant: the event is also handed to the local connections directly
SendToUserDirect(w, p, u, ev, rcv) ==
    sendToLocalUser(publishToRedis(w, MarshalTargeted(u, ev), rcv), p, u, ev)

\* Hub.SendToUser on process p
SendToUser(w, p, u, ev, rcv) == publishToRedis(w, MarshalTargeted(u, ev), rcv)

\* for _, userID := range userIDs { h.SendToUser(userID, event) }
RECURSIVE SendToUsers(_, _, _, _, _)
SendToUsers(w, p, userIDs, ev, rcvs) ==
    IF userIDs = <<>> THEN w
    ELSE SendToUsers(SendToUser(w, p, Head(userIDs), ev, Head(rcvs)), p,
                     Tail(userIDs), ev, Tail(rcvs))

IsUserOnline(p, u) == u \in DOMAIN clients[p]

GetOnlineUserIDs(p) == DOMAIN clients[p]

\* the connections the table of p holds for u
ConnsOf(tbl, u) == IF u \in DOMAIN tbl THEN tbl[u] ELSE {}

\* ------------------------------------------------------------- actions
\* The events the hub's callers send in the hub-level specification.
HubEvents == {WSEvent("typing", [text |-> "t"]), WSEvent("new_message", [text |-> "m"])}

\* HandleWebSocket: NewClient, then hub.Register blocks on the register channel.
HandleWebSocket(c, p) ==
    /\ cstate[c] = "idle"
    /\ ProcUp(p)
    /\ cstate' = [cstate EXCEPT ![c] = "registering"]
    /\ cproc' = [cproc EXCEPT ![c] = p]
    /\ UNCHANGED <<clients, send, closed, bus, hubState, notif, evicted, nSends>>
    /\ UNCHANGED pumpVars
    /\ UNCHANGED auxVars

\* Run: case client := <-h.register
RunRegister(c) ==
    /\ cstate[c] = "registering"
    /\ Alive(cproc[c])
    /\ \E rcv \in Outcomes :
         LET w == addClient(World, cproc[c], c, rcv) IN
         /\ Install(w)
    /\ cstate' = [cstate EXCEPT ![c] = "active"]
    /\ UNCHANGED <<cproc, nSends>>
    /\ UNCHANGED pumpVars
    /\ UNCHANGED auxVars

\* ReadPump: the read fails (peer close, timeout, socket closed by WritePump);
\* the deferred function blocks on c.hub.unregister <- c.
ReadPumpExit(c) ==
    /\ cstate[c] = "active"
    /\ ProcUp(cproc[c])
    /\ cstate' = [cstate EXCEPT ![c] = "closing"]
    /\ UNCHANGED <<clients, send, closed, bus, hubState, cproc, notif, evicted, nSends>>
    /\ UNCHANGED pumpVars
    /\ UNCHANGED auxVars

\* Run: case client := <-h.unregister
RunUnregister(c) ==
    /\ cstate[c] = "closing"
    /\ Alive(cproc[c])
    /\ \E rcv \in Outcomes :
         LET w == removeClient(World, cproc[c], c, rcv) IN
         /\ Install(w)
    /\ cstate' = [cstate EXCEPT ![c] = "closed"]
    /\ UNCHANGED <<cproc, nSends>>
    /\ UNCHANGED pumpVars
    /\ UNCHANGED auxVars

\* subscribeRedis: case msg := <-ch
Subscribe(p) ==
    /\ Alive(p)
    /\ bus[p] # <<>>
    /\ LET msg == Head(bus[p])
           w == subscribeRedis([World EXCEPT !.bus[p] = Tail(@)], p, msg) IN
       /\ Install(w)
    /\ UNCHANGED <<cstate, cproc, nSends>>
    /\ UNCHANGED pumpVars
    /\ UNCHANGED auxVars

\* WritePump: message, ok := <-c.send (one queued event taken)
WritePumpRecv(c) ==
    /\ cstate[c] \in {"active", "closing", "closed"}
    /\ ProcUp(cproc[c])
    /\ send[c] # <<>>
    /\ send' = [send EXCEPT ![c] = Tail(@)]
    /\ UNCHANGED <<clients, closed, bus, hubState, cstate, cproc, notif, evicted, nSends>>
    /\ UNCHANGED pumpVars
    /\ UNCHANGED auxVars

\* A caller on process p sends an event to one user.
CallSendToUser(p) ==
    /\ ProcUp(p)
    /\ nSends < MaxSends
    /\ \E u \in Users \cup {Nil}, ev \in HubEvents, rcv \in SUBSET AliveProcs :
         LET w == SendToUser(World, p, u, ev, rcv) IN
         /\ Install(w)
    /\ nSends' = nSends + 1
    /\ UNCHANGED <<cstate, cproc>>
    /\ UNCHANGED pumpVars
    /\ UNCHANGED auxVars

\* Everything but which processes are deployed.
InitRest ==
    /\ clients = [p \in Procs |-> <<>>]
    /\ send = [c \in Conns |-> <<>>]
    /\ closed = [c \in Conns |-> FALSE]
    /\ bus = [p \in Procs |-> <<>>]
    /\ cstate = [c \in Conns |-> "idle"]
    /\ cproc = [c \in Conns |-> 0]
    /\ notif = [p \in Procs |-> [u \in Users |-> <<>>]]
    /\ evicted = {}
    /\ sock = [c \in Conns |-> "open"]
    /\ wdone = [c \in Conns |-> FALSE]
    /\ wn = [c \in Conns |-> 0]
    /\ wbuf = [c \in Conns |-> <<>>]
    /\ wire = [c \in Conns |-> <<>>]
    /\ held = [p \in Procs |-> [t \in Tasks |-> "idle"]]
    /\ cbdone = [p \in Procs |-> [u \in Users |-> {}]]
    /\ stored = [u \in Users |-> FALSE]

\* A single-process deployment: process 1 runs, the others are not deployed.

\* ------------------------------------------------------- the dispatcher
CallTypes == {"call_offer", "call_answer", "call_ice_candidate", "call_hangup"}

\* The external membership store: conversation -> member ids, as the query returns them.
Convs == {"c1"}
MemberIDs(conv) == IF conv = "c1" THEN <<"A", "B">> ELSE <<>>

Range(f) == {f[i] : i \in DOMAIN f}

\* ConversationRepository.IsMember
IsMember(conv, u) == u \in Range(MemberIDs(conv))

\* a uuid.UUID field of a payload struct: the zero value when the key is absent
UUIDField(pl, key) == IF pl # NULL /\ key \in DOMAIN pl THEN pl[key] ELSE Nil

\* the persisted model.Message
Message(sender, conv, content) ==
    [conversation_id |-> conv, sender_id |-> sender, content |-> content]

called(w, fn) == [w EXCEPT !.calls = Append(@, fn)]

\* mutant: the event is published before the message is persisted
handleNewMessageEager(w, p, c, ev, db, rcvs) ==
    LET conv == UUIDField(ev.Payload, "conversation_id")
        content == IF "content" \in DOMAIN ev.Payload THEN ev.Payload.content ELSE ""
    IN  called(SendToUsers(called(w, "GetConversationMemberIDs"), p, MemberIDs(conv),
                           WSEvent("new_message", Message(UserOf(c), conv, content)), rcvs),
               "SendMessage")

\* WSHandler.handleNewMessage; db.persist / db.lookup: whether the store answers
handleNewMessage(w, p, c, ev, db, rcvs) ==
    LET conv == UUIDField(ev.Payload, "conversation_id")
        content == IF "content" \in DOMAIN ev.Payload THEN ev.Payload.content ELSE ""
        w1 == called(w, "SendMessage")
    IN  IF ~(db.persist /\ IsMember(conv, UserOf(c))) THEN w1
        ELSE LET w2 == called(w1, "GetConversationMemberIDs") IN
             IF ~db.lookup THEN w2
             ELSE SendToUsers(w2, p, MemberIDs(conv),
                              WSEvent("new_message", Message(UserOf(c), conv, content)), rcvs)

\* claims.Name of the token a connection was opened with (Client.Name)
NameOf(c) == IF UserOf(c) = "A" THEN "Alice" ELSE "Bob"

\* model.TypingEvent
TypingEvent(conv, u, name) == [conversation_id |-> conv, user_id |-> u, name |-> name]

\* model.MessageReadEvent
MessageReadEvent(conv, mid, u) == [conversation_id |-> conv, message_id |-> mid, user_id |-> u]

\* mutant: the sender is not skipped
RECURSIVE sendToEvery(_, _, _, _, _, _)
sendToEvery(w, p, memberIDs, sender, ev, rcvs) ==
    IF memberIDs = <<>> THEN w
    ELSE sendToEvery(SendToUser(w, p, Head(memberIDs), ev, Head(rcvs)), p,
                     Tail(memberIDs), sender, ev, Tail(rcvs))

\* for _, memberID := range memberIDs { if memberID != client.UserID { SendToUser } }
RECURSIVE sendToOthers(_, _, _, _, _, _)
sendToOthers(w, p, memberIDs, sender, ev, rcvs) ==
    IF memberIDs = <<>> THEN w
    ELSE IF Head(memberIDs) = sender
         THEN sendToOthers(w, p, Tail(memberIDs), sender, ev, rcvs)
         ELSE sendToOthers(SendToUser(w, p, Head(memberIDs), ev, Head(rcvs)), p,
                           Tail(memberIDs), sender, ev, Tail(rcvs))

\* mutant: the members are known although the lookup failed
lookupDespiteError(conv, db) == MemberIDs(conv)

\* memberIDs, _ := GetConversationMemberIDs(conv): nil when the lookup fails
lookupOrNil(conv, db) == IF db.lookup THEN MemberIDs(conv) ELSE <<>>

\* WSHandler.handleTyping
handleTyping(w, p, c, ev, db, rcvs) ==
    LET conv == UUIDField(ev.Payload, "conversation_id") IN
    sendToOthers(called(w, "GetConversationMemberIDs"), p, lookupOrNil(conv, db), UserOf(c),
                 WSEvent("typing", TypingEvent(conv, UserOf(c), NameOf(c))), rcvs)

\* WSHandler.handleStopTyping
handleStopTyping(w, p, c, ev, db, rcvs) ==
    LET conv == UUIDField(ev.Payload, "conversation_id") IN
    sendToOthers(called(w, "GetConversationMemberIDs"), p, lookupOrNil(conv, db), UserOf(c),
                 WSEvent("stop_typing", TypingEvent(conv, UserOf(c), NameOf(c))), rcvs)

\* mutant: the other members are notified first and the messages marked read after
handleMessageReadLate(w, p, c, ev, db, rcvs) ==
    LET conv == UUIDField(ev.Payload, "conversation_id")
        mid == UUIDField(ev.Payload, "message_id")
    IN  called(sendToOthers(called(w, "GetConversationMemberIDs"), p,
                            lookupOrNil(conv, db), UserOf(c),
                            WSEvent("message_read", MessageReadEvent(conv, mid, UserOf(c))), rcvs),
               "MarkMessagesAsRead")

\* WSHandler.handleMessageRead
handleMessageRead(w, p, c, ev, db, rcvs) ==
    LET conv == UUIDField(ev.Payload, "conversation_id")
        mid == UUIDField(ev.Payload, "message_id")
    IN  sendToOthers(called(called(w, "MarkMessagesAsRead"), "GetConversationMemberIDs"), p,
                     lookupOrNil(conv, db), UserOf(c),
                     WSEvent("message_read", MessageReadEvent(conv, mid, UserOf(c))), rcvs)

\* mutant: the signaling event is sent back to the user it came from
handleCallSignalingEcho(w, p, c, ev, rcvs) ==
    SendToUser(w, p, UserOf(c), ev, Head(rcvs))

\* WSHandler.handleCallSignaling
handleCallSignaling(w, p, c, ev, rcvs) ==
    SendToUser(w, p, UUIDField(ev.Payload, "to"), ev, Head(rcvs))

\* mutant: a type the switch does not know is handled as a typing notice
handleWSMessageLoose(w, p, c, ev, db, rcvs) ==
    IF ev.Type = "new_message" THEN handleNewMessage(w, p, c, ev, db, rcvs)
    ELSE IF ev.Type = "stop_typing" THEN handleStopTyping(w, p, c, ev, db, rcvs)
    ELSE IF ev.Type = "message_read" THEN handleMessageRead(w, p, c, ev, db, rcvs)
    ELSE IF ev.Type \in CallTypes THEN handleCallSignaling(w, p, c, ev, rcvs)
    ELSE handleTyping(w, p, c, ev, db, rcvs)

\* WSHandler.handleWSMessage: switch event.Type
handleWSMessage(w, p, c, ev, db, rcvs) ==
    IF ev.Type = "new_message" THEN handleNewMessage(w, p, c, ev, db, rcvs)
    ELSE IF ev.Type = "typing" THEN handleTyping(w, p, c, ev, db, rcvs)
    ELSE IF ev.Type = "stop_typing" THEN handleStopTyping(w, p, c, ev, db, rcvs)
    ELSE IF ev.Type = "message_read" THEN handleMessageRead(w, p, c, ev, db, rcvs)
    ELSE IF ev.Type \in CallTypes THEN handleCallSignaling(w, p, c, ev, rcvs)
    ELSE w

\* The frames clients send.
ChatFrames == {[type |-> "new_message", payload |-> [conversation_id |-> cv, content |-> "hi"]] : cv \in Convs}
CallFrames == {[type |-> t, payload |-> [to |-> u, sdp |-> "s"]] : t \in CallTypes, u \in Users}
TypingFrames == {[type |-> t, payload |-> [conversation_id |-> cv]] : t \in {"typing", "stop_typing"}, cv \in Convs}
ReadFrames == {[type |-> "message_read", payload |-> [conversation_id |-> cv, message_id |-> "m1"]] : cv \in Convs}
\* frames of a recognized type whose payload lacks the field its handler reads
\* (conversation_id, or to for the call types)
MissingFrames ==
    {[type |-> t, payload |-> [content |-> "hi"]] : t \in {"new_message", "typing", "stop_typing", "message_read"}}
      \cup {[type |-> t, payload |-> [sdp |-> "s"]] : t \in CallTypes}
\* the frames the connections of the model send
Frames == ChatFrames \cup TypingFrames \cup ReadFrames \cup CallFrames
            \cup {f \in MissingFrames : f.type \in {"typing", "call_offer"}}

\* most publishes one frame causes: the members of the largest conversation
MaxFanout == 2

\* whether the message store / the membership store answers or fails
StoreOutcomes == [persist : BOOLEAN, lookup : BOOLEAN]

\* frames json.Unmarshal cannot decode into a model.WSEvent
Undecodable == {[raw |-> "not json"], [raw |-> "{\"type\": 5}"]}

\* json.Unmarshal(message, &event) returns an error
jsonError(frame) == "raw" \in DOMAIN frame

\* the body of ReadPump's loop after a successful read: a frame that does not
\* decode is logged and skipped (continue), any other goes to the handler
readFrame(w, p, c, frame, db, rcvs) ==
    IF jsonError(frame) THEN w
    ELSE handleWSMessage(w, p, c, UnmarshalWSEvent(frame), db, rcvs)

\* ReadPump: one frame of the given frames read, decoded and handed to the dispatcher
ReadPumpRead(c, frames) ==
    /\ cstate[c] = "active"
    /\ ProcUp(cproc[c])
    /\ nSends < MaxSends
    /\ \E frame \in frames, db \in StoreOutcomes, rcvs \in [1 .. MaxFanout -> Outcomes] :
         LET w == readFrame(World, cproc[c], c, frame, db, rcvs) IN
         /\ Install(w)
    /\ nSends' = nSends + 1
    /\ UNCHANGED <<cstate, cproc>>
    /\ UNCHANGED pumpVars
    /\ UNCHANGED auxVars

ReadPumpFrame(c) == ReadPumpRead(c, Frames)

\* the ephemeral notices: typing, stop_typing, message_read
NoticeFrames == TypingFrames \cup ReadFrames

ReadPumpNotice(c) == ReadPumpRead(c, NoticeFrames)

\* decoded frames whose type is none of the eight the switch knows: a type
\* of another feature, the empty type, and no type at all
UnknownFrames ==
    {[type |-> t, payload |-> [conversation_id |-> cv, to |-> u]] :
        t \in {"ping", ""}, cv \in Convs, u \in Users}
      \cup {[payload |-> [conversation_id |-> cv, to |-> u]] : cv \in Convs, u \in Users}

\* the frames the dispatcher has nothing to do for
JunkFrames == Undecodable \cup UnknownFrames

ReadPumpJunk(c) == ReadPumpRead(c, JunkFrames)

\* ---------------------------------------------------------- the pumps
\* websocket.CloseMessage as it appears on the wire
CloseFrame == [type |-> "close", payload |-> NULL]

\* WritePump runs: started by HandleWebSocket after Register, not yet returned
WritePumpRuns(c) ==
    /\ cstate[c] \in {"active", "closing", "closed"}
    /\ ~wdone[c]
    /\ ProcUp(cproc[c])

\* WritePump waits in its select: no frame is being written
AtSelect(c) == wn[c] = 0 /\ wbuf[c] = <<>>

\* mutant: the newest queued event is written first
newestQueued(q) == Len(q)

\* <-c.send: the position in the queue of the event received, the oldest
nextQueued(q) == 1

\* message, ok := <-c.send with ok; NextWriter; w.Write(message); n := len(c.send)
WritePumpTake(c) ==
    /\ WritePumpRuns(c) /\ AtSelect(c)
    /\ send[c] # <<>>
    /\ send' = [send EXCEPT ![c] = Tail(@)]
    /\ IF sock[c] = "open"
       THEN /\ wbuf' = [wbuf EXCEPT ![c] = <<Head(send[c])>>]
            /\ wn' = [wn EXCEPT ![c] = Len(send[c]) - 1]
            /\ UNCHANGED wdone
       ELSE /\ wdone' = [wdone EXCEPT ![c] = TRUE]
            /\ UNCHANGED <<wbuf, wn>>
    /\ UNCHANGED <<clients, closed, bus, hubState, cstate, cproc, notif, evicted, nSends, sock, wire>>
    /\ UNCHANGED auxVars

\* w.Write([]byte("\n")); w.Write(<-c.send)
WritePumpCoalesce(c) ==
    /\ WritePumpRuns(c)
    /\ wn[c] > 0
    /\ LET i == nextQueued(send[c]) IN
       /\ wbuf' = [wbuf EXCEPT ![c] = Append(@, send[c][i])]
       /\ send' = [send EXCEPT ![c] = SubSeq(@, 1, i - 1) \o SubSeq(@, i + 1, Len(@))]
    /\ wn' = [wn EXCEPT ![c] = @ - 1]
    /\ UNCHANGED <<clients, closed, bus, hubState, cstate, cproc, notif, evicted, nSends, sock, wdone, wire>>
    /\ UNCHANGED auxVars

\* w.Close(): the frame is flushed to the peer, or the error makes WritePump return
WritePumpFlush(c) ==
    /\ WritePumpRuns(c)
    /\ wn[c] = 0 /\ wbuf[c] # <<>>
    /\ wbuf' = [wbuf EXCEPT ![c] = <<>>]
    /\ IF sock[c] = "open"
       THEN wire' = [wire EXCEPT ![c] = @ \o wbuf[c]] /\ UNCHANGED wdone
       ELSE wdone' = [wdone EXCEPT ![c] = TRUE] /\ UNCHANGED wire
    /\ UNCHANGED <<clients, send, closed, bus, hubState, cstate, cproc, notif, evicted, nSends, sock, wn>>
    /\ UNCHANGED auxVars

\* mutant: on the closed queue WritePump returns without the close message
WritePumpClosedSilent(c) ==
    /\ WritePumpRuns(c) /\ AtSelect(c)
    /\ send[c] = <<>> /\ closed[c]
    /\ wdone' = [wdone EXCEPT ![c] = TRUE]
    /\ sock' = [sock EXCEPT ![c] = "closed"]
    /\ UNCHANGED <<clients, send, closed, bus, hubState, cstate, cproc, notif, evicted, nSends, wn, wbuf, wire>>
    /\ UNCHANGED auxVars

\* message, ok := <-c.send with !ok: the close message, return, deferred c.conn.Close()
WritePumpClosed(c) ==
    /\ WritePumpRuns(c) /\ AtSelect(c)
    /\ send[c] = <<>> /\ closed[c]
    /\ wire' = [wire EXCEPT ![c] = IF sock[c] = "open" THEN Append(@, CloseFrame) ELSE @]
    /\ wdone' = [wdone EXCEPT ![c] = TRUE]
    /\ sock' = [sock EXCEPT ![c] = "closed"]
    /\ UNCHANGED <<clients, send, closed, bus, hubState, cstate, cproc, notif, evicted, nSends, wn, wbuf>>
    /\ UNCHANGED auxVars

\* case <-ticker.C: the ping cannot be written, return
WritePumpFail(c) ==
    /\ WritePumpRuns(c) /\ AtSelect(c)
    /\ sock[c] = "closed"
    /\ wdone' = [wdone EXCEPT ![c] = TRUE]
    /\ UNCHANGED <<clients, send, closed, bus, hubState, cstate, cproc, notif, evicted, nSends, sock, wn, wbuf, wire>>
    /\ UNCHANGED auxVars

\* the peer closes the socket, or the network fails
SockBreak(c) ==
    /\ cstate[c] \in {"active", "closing", "closed"}
    /\ ProcUp(cproc[c])
    /\ sock[c] = "open"
    /\ sock' = [sock EXCEPT ![c] = "closed"]
    /\ UNCHANGED <<clients, send, closed, bus, hubState, cstate, cproc, notif, evicted, nSends, wdone, wn, wbuf, wire>>
    /\ UNCHANGED auxVars

\* ReadPump: c.conn.ReadMessage() fails on the closed socket; break, and the
\* deferred function blocks on c.hub.unregister <- c
ReadPumpSockClosed(c) ==
    /\ cstate[c] = "active"
    /\ ProcUp(cproc[c])
    /\ sock[c] = "closed"
    /\ cstate' = [cstate EXCEPT ![c] = "closing"]
    /\ UNCHANGED <<clients, send, closed, bus, hubState, cproc, notif, evicted, nSends>>
    /\ UNCHANGED pumpVars
    /\ UNCHANGED auxVars

\* ReadPump's deferred function after the unregister was taken: c.conn.Close()
ReadPumpClose(c) ==
    /\ cstate[c] = "closed"
    /\ ProcUp(cproc[c])
    /\ sock[c] = "open"
    /\ sock' = [sock EXCEPT ![c] = "closed"]
    /\ UNCHANGED <<clients, send, closed, bus, hubState, cstate, cproc, notif, evicted, nSends, wdone, wn, wbuf, wire>>
    /\ UNCHANGED auxVars

\* the context given to Run is cancelled: Run and subscribeRedis return
Cancel(p) ==
    /\ Alive(p)
    /\ hubState' = [hubState EXCEPT ![p] = "stopped"]
    /\ UNCHANGED <<clients, send, closed, bus, cstate, cproc, notif, evicted, nSends>>
    /\ UNCHANGED pumpVars
    /\ UNCHANGED auxVars

\* ---------------------------------------------------------- the guard
\* Hub.mu, a sync.RWMutex. held[p][t] is "idle", "waitW" (Lock called, not yet
\* returned), "W" (Lock returned), "R" (RLock returned), and "Wdone" / "Rdone"
\* once the body of the function has run and the deferred unlock is due.
HoldsW(p, t) == held[p][t] \in {"W", "Wdone"}
HoldsR(p, t) == held[p][t] \in {"R", "Rdone"}
Writers(p) == {t \in Tasks : HoldsW(p, t)}
Readers(p) == {t \in Tasks : HoldsR(p, t)}
WaitingW(p) == {t \in Tasks : held[p][t] = "waitW"}

\* the requests waiting on h.register and h.unregister of process p
Requests(p) == {c \in Conns : cproc[c] = p /\ cstate[c] \in {"registering", "closing"}}

\* Run has a request to take; addClient / removeClient calls h.mu.Lock()
MuLockCall(p) ==
    /\ Alive(p)
    /\ held[p]["run"] = "idle"
    /\ Requests(p) # {}
    /\ held' = [held EXCEPT ![p]["run"] = "waitW"]
    /\ UNCHANGED <<clients, send, closed, bus, hubState, cstate, cproc, notif, evicted, nSends>>
    /\ UNCHANGED <<pumpVars, cbdone, stored>>

\* h.mu.Lock() returns: nobody holds the guard
MuLock(p) ==
    /\ Alive(p)
    /\ held[p]["run"] = "waitW"
    /\ Readers(p) = {} /\ Writers(p) = {}
    /\ held' = [held EXCEPT ![p]["run"] = "W"]
    /\ UNCHANGED <<clients, send, closed, bus, hubState, cstate, cproc, notif, evicted, nSends>>
    /\ UNCHANGED <<pumpVars, cbdone, stored>>

\* the body of addClient, run with the guard the code took
GuardedAdd(c) ==
    /\ cstate[c] = "registering"
    /\ Alive(cproc[c])
    /\ held[cproc[c]]["run"] = "W"
    /\ \E rcv \in Outcomes : Install(addClient(World, cproc[c], c, rcv))
    /\ cstate' = [cstate EXCEPT ![c] = "active"]
    /\ held' = [held EXCEPT ![cproc[c]]["run"] = "Wdone"]
    /\ UNCHANGED <<cproc, nSends, pumpVars, cbdone, stored>>

\* the body of removeClient, run with the guard the code took
GuardedRemove(c) ==
    /\ cstate[c] = "closing"
    /\ Alive(cproc[c])
    /\ held[cproc[c]]["run"] = "W"
    /\ \E rcv \in Outcomes : Install(removeClient(World, cproc[c], c, rcv))
    /\ cstate' = [cstate EXCEPT ![c] = "closed"]
    /\ held' = [held EXCEPT ![cproc[c]]["run"] = "Wdone"]
    /\ UNCHANGED <<cproc, nSends, pumpVars, cbdone, stored>>

\* defer h.mu.Unlock()
MuUnlock(p) ==
    /\ ProcUp(p)
    /\ held[p]["run"] = "Wdone"
    /\ held' = [held EXCEPT ![p]["run"] = "idle"]
    /\ UNCHANGED <<clients, send, closed, bus, hubState, cstate, cproc, notif, evicted, nSends>>
    /\ UNCHANGED <<pumpVars, cbdone, stored>>

\* mutant: RLock returns although a writer waits for the guard
MuRLockBarging(p, t) ==
    /\ t \in {"sub", "api"}
    /\ IF t = "sub" THEN Alive(p) /\ bus[p] # <<>> ELSE ProcUp(p)
    /\ held[p][t] = "idle"
    /\ Writers(p) = {}
    /\ held' = [held EXCEPT ![p][t] = "R"]
    /\ UNCHANGED <<clients, send, closed, bus, hubState, cstate, cproc, notif, evicted, nSends>>
    /\ UNCHANGED <<pumpVars, cbdone, stored>>

\* h.mu.RLock() returns: no writer holds the guard or waits for it. The
\* subscriber calls it in sendToLocalUser / broadcastToLocal for a message read.
MuRLock(p, t) ==
    /\ t \in {"sub", "api"}
    /\ IF t = "sub" THEN Alive(p) /\ bus[p] # <<>> ELSE ProcUp(p)
    /\ held[p][t] = "idle"
    /\ Writers(p) = {} /\ WaitingW(p) = {}
    /\ held' = [held EXCEPT ![p][t] = "R"]
    /\ UNCHANGED <<clients, send, closed, bus, hubState, cstate, cproc, notif, evicted, nSends>>
    /\ UNCHANGED <<pumpVars, cbdone, stored>>

\* the body of sendToLocalUser / broadcastToLocal, run with the guard the code took
GuardedDeliver(p) ==
    /\ Alive(p)
    /\ bus[p] # <<>>
    /\ held[p]["sub"] = "R"
    /\ Install(subscribeRedis([World EXCEPT !.bus[p] = Tail(@)], p, Head(bus[p])))
    /\ held' = [held EXCEPT ![p]["sub"] = "Rdone"]
    /\ UNCHANGED <<cstate, cproc, nSends, pumpVars, cbdone, stored>>

\* the body of IsUserOnline / GetOnlineUserIDs: the table is read
GuardedRead(p) ==
    /\ ProcUp(p)
    /\ held[p]["api"] = "R"
    /\ held' = [held EXCEPT ![p]["api"] = "Rdone"]
    /\ UNCHANGED <<clients, send, closed, bus, hubState, cstate, cproc, notif, evicted, nSends>>
    /\ UNCHANGED <<pumpVars, cbdone, stored>>

\* defer h.mu.RUnlock()
MuRUnlock(p, t) ==
    /\ ProcUp(p)
    /\ held[p][t] = "Rdone"
    /\ held' = [held EXCEPT ![p][t] = "idle"]
    /\ UNCHANGED <<clients, send, closed, bus, hubState, cstate, cproc, notif, evicted, nSends>>
    /\ UNCHANGED <<pumpVars, cbdone, stored>>

\* ------------------------------------------------- the presence callback
\* the go h.onStatusChange(userID, online) calls process p has started for u
CallbackIdx(p, u) == {i \in 1 .. Len(notif[p][u]) : notif[p][u][i].kind = "callback"}

\* those of them whose goroutine has not run yet
PendingCallbacks(p, u) == CallbackIdx(p, u) \ cbdone[p][u]

\* one started callback runs: userRepo.UpdateOnlineStatus(userID, online).
\* Each was started with go, so the scheduler picks any of the pending ones.
RunCallback(p, u) ==
    /\ ProcUp(p)
    /\ \E i \in PendingCallbacks(p, u) :
         /\ stored' = [stored EXCEPT ![u] = notif[p][u][i].online]
         /\ cbdone' = [cbdone EXCEPT ![p][u] = @ \cup {i}]
    /\ UNCHANGED <<clients, send, closed, bus, hubState, cstate, cproc, notif, evicted, nSends>>
    /\ UNCHANGED <<pumpVars, held>>

Init ==
    /\ hubState = [p \in Procs |-> IF p = 1 THEN "running" ELSE "down"]
    /\ nSends = 0
    /\ InitRest

Next ==
    \/ \E c \in Conns, p \in Procs : HandleWebSocket(c, p)
    \/ \E c \in Conns : RunRegister(c)
    \/ \E c \in Conns : ReadPumpExit(c)
    \/ \E c \in Conns : RunUnregister(c)
    \/ \E c \in Conns : WritePumpRecv(c)
    \/ \E p \in Procs : Subscribe(p)
    \/ \E p \in Procs : CallSendToUser(p)

Spec == Init /\ [][Next]_vars

\* one connection per user
MultiConns == {c \in Conns : c % 3 # 2}

\* A deployment of all processes, after a first send whose publish failed
\* (which changes nothing but the count of sends).
InitMulti ==
    /\ hubState = [p \in Procs |-> "running"]
    /\ nSends = 1
    /\ InitRest

NextMulti ==
    \/ \E c \in MultiConns, p \in Procs : HandleWebSocket(c, p)
    \/ \E c \in MultiConns : RunRegister(c)
    \/ \E c \in MultiConns : ReadPumpExit(c)
    \/ \E c \in MultiConns : RunUnregister(c)
    \/ \E c \in MultiConns : WritePumpRecv(c)
    \/ \E p \in Procs : Subscribe(p)
    \/ \E p \in Procs : CallSendToUser(p)

SpecMulti == InitMulti /\ [][NextMulti]_vars

\* The dispatcher on a single-process deployment with one connection per user:
\* the sends are those the handlers of inbound frames make.
NextDispatch ==
    \/ \E c \in MultiConns, p \in Procs : HandleWebSocket(c, p)
    \/ \E c \in MultiConns : RunRegister(c)
    \/ \E c \in MultiConns : ReadPumpExit(c)
    \/ \E c \in MultiConns : RunUnregister(c)
    \/ \E c \in MultiConns : WritePumpRecv(c)
    \/ \E p \in Procs : Subscribe(p)
    \/ \E c \in MultiConns : ReadPumpFrame(c)

SpecDispatch == Init /\ [][NextDispatch]_vars

\* The dispatcher with every connection (two of user A, one of user B), the
\* frames being the ephemeral notices, after a first frame that caused nothing.
InitNotice ==
    /\ hubState = [p \in Procs |-> IF p = 1 THEN "running" ELSE "down"]
    /\ nSends = 1
    /\ InitRest

NextNotice ==
    \/ \E c \in Conns, p \in Procs : HandleWebSocket(c, p)
    \/ \E c \in Conns : RunRegister(c)
    \/ \E c \in Conns : ReadPumpExit(c)
    \/ \E c \in Conns : RunUnregister(c)
    \/ \E c \in Conns : WritePumpRecv(c)
    \/ \E p \in Procs : Subscribe(p)
    \/ \E c \in Conns : ReadPumpNotice(c)

SpecNotice == InitNotice /\ [][NextNotice]_vars

\* Connections that send notices and frames the server cannot use.
NextJunk ==
    \/ \E c \in MultiConns, p \in Procs : HandleWebSocket(c, p)
    \/ \E c \in MultiConns : RunRegister(c)
    \/ \E c \in MultiConns : ReadPumpExit(c)
    \/ \E c \in MultiConns : RunUnregister(c)
    \/ \E c \in MultiConns : WritePumpRecv(c)
    \/ \E p \in Procs : Subscribe(p)
    \/ \E c \in MultiConns : ReadPumpNotice(c)
    \/ \E c \in MultiConns : ReadPumpJunk(c)

SpecJunk == Init /\ [][NextJunk]_vars

\* Connections that come and go, and the presence callbacks they start.
NextPresence ==
    \/ \E c \in Conns, p \in Procs : HandleWebSocket(c, p)
    \/ \E c \in Conns : RunRegister(c)
    \/ \E c \in Conns : ReadPumpExit(c)
    \/ \E c \in Conns : RunUnregister(c)
    \/ \E p \in Procs, u \in Users : RunCallback(p, u)

SpecPresence == Init /\ [][NextPresence]_vars

\* The same on a deployment of all processes: a user may have connections on
\* several of them.
SpecShared == InitMulti /\ [][NextPresence]_vars




\* The connections of user A among those with one connection per user: the
\* ones whose pumps are followed step by step.
PumpConns == {c \in MultiConns : UserOf(c) = "A"}

\* A connection with its pumps on a single-process deployment, the events
\* being those the hub's callers send.
NextPump ==
    \/ \E c \in PumpConns, p \in Procs : HandleWebSocket(c, p)
    \/ \E c \in PumpConns : RunRegister(c)
    \/ \E c \in PumpConns : ReadPumpExit(c)
    \/ \E c \in PumpConns : SockBreak(c)
    \/ \E c \in PumpConns : ReadPumpSockClosed(c)
    \/ \E c \in PumpConns : RunUnregister(c)
    \/ \E c \in PumpConns : ReadPumpClose(c)
    \/ \E c \in PumpConns : WritePumpTake(c)
    \/ \E c \in PumpConns : WritePumpCoalesce(c)
    \/ \E c \in PumpConns : WritePumpFlush(c)
    \/ \E c \in PumpConns : WritePumpClosed(c)
    \/ \E c \in PumpConns : WritePumpFail(c)
    \/ \E p \in Procs : Subscribe(p)
    \/ \E p \in Procs : CallSendToUser(p)
    \/ \E p \in Procs : Cancel(p)

\* The Go scheduler runs every goroutine that can take a step: the control
\* loop, the subscriber and the two pumps of each connection. Nothing is assumed
\* of the peers, the network, the callers or the shutdown signal.
FairPump ==
    /\ \A c \in PumpConns : WF_vars(RunRegister(c))
    /\ \A c \in PumpConns : WF_vars(RunUnregister(c))
    /\ \A c \in PumpConns : WF_vars(ReadPumpSockClosed(c))
    /\ \A c \in PumpConns : WF_vars(ReadPumpClose(c))
    /\ \A c \in PumpConns : WF_vars(WritePumpTake(c))
    /\ \A c \in PumpConns : WF_vars(WritePumpCoalesce(c))
    /\ \A c \in PumpConns : WF_vars(WritePumpFlush(c))
    /\ \A c \in PumpConns : WF_vars(WritePumpClosed(c))
    /\ \A c \in PumpConns : WF_vars(WritePumpFail(c))
    /\ \A p \in Procs : WF_vars(Subscribe(p))

SpecPump == Init /\ [][NextPump]_vars /\ FairPump

\* The hub of one process with the steps of its guard: the control loop, the
\* subscriber and a caller of the read-only methods.
NextGuard ==
    \/ \E c \in PumpConns, p \in Procs : HandleWebSocket(c, p)
    \/ \E c \in PumpConns : ReadPumpExit(c)
    \/ \E c \in PumpConns : WritePumpRecv(c)
    \/ \E p \in Procs : MuLockCall(p)
    \/ \E p \in Procs : MuLock(p)
    \/ \E c \in PumpConns : GuardedAdd(c)
    \/ \E c \in PumpConns : GuardedRemove(c)
    \/ \E p \in Procs : MuUnlock(p)
    \/ \E p \in Procs, t \in Tasks : MuRLock(p, t)
    \/ \E p \in Procs : GuardedDeliver(p)
    \/ \E p \in Procs : GuardedRead(p)
    \/ \E p \in Procs, t \in Tasks : MuRUnlock(p, t)
    \/ \E p \in Procs : CallSendToUser(p)

\* The Go scheduler runs the control loop and the subscriber, and a caller of
\* a read-only method returns; nothing is assumed of peers and callers.
FairGuard ==
    /\ \A p \in Procs : WF_vars(MuLockCall(p))
    /\ \A p \in Procs : WF_vars(MuLock(p))
    /\ \A c \in PumpConns : WF_vars(GuardedAdd(c))
    /\ \A c \in PumpConns : WF_vars(GuardedRemove(c))
    /\ \A p \in Procs : WF_vars(MuUnlock(p))
    /\ \A p \in Procs : WF_vars(MuRLock(p, "sub"))
    /\ \A p \in Procs : WF_vars(GuardedDeliver(p))
    /\ \A p \in Procs : WF_vars(GuardedRead(p))
    /\ \A p \in Procs, t \in Tasks : WF_vars(MuRUnlock(p, t))

SpecGuard == Init /\ [][NextGuard]_vars /\ FairGuard


\* ------------------------------------------------------------ properties
\* every connection in a table
AllConns(tbl) == UNION {tbl[u] : u \in DOMAIN tbl}

\* the step is process p's subscriber handling the message at the head of its channel
SubscribeStep(p) == Alive(p) /\ bus[p] # <<>> /\ bus'[p] = Tail(bus[p])

\* the step is a call made into the hub by one of its callers
SendStep == nSends' = nSends + 1

\* the target user id a bus message carries (uuid.Nil: none)
TargetOf(msg) == IF "target_user_id" \in DOMAIN msg THEN msg.target_user_id ELSE Nil

\* the event a bus message carries: wrapped in a TargetedEvent, or published bare
EventOf(msg) == IF "event" \in DOMAIN msg THEN msg.event ELSE msg

\* the two notifications of one presence transition
Transition(online) ==
    <<[kind |-> "callback", online |-> online], [kind |-> "publish", online |-> online]>>

\* online, offline, online, ... starting with online
Alternates(log) ==
    \A i \in 1 .. Len(log) : log[i].online = (((i - 1) \div 2) % 2 = 0)

\* C1: in every state, IsUserOnline(u) holds iff the table holds at least one
\* connection of u, and GetOnlineUserIDs is exactly the users with a connection.
C1_OnlineIffConnected ==
    \A p \in Procs :
        /\ \A u \in Users : IsUserOnline(p, u) <=> (ConnsOf(clients[p], u) # {})
        /\ GetOnlineUserIDs(p) = {u \in Users : ConnsOf(clients[p], u) # {}}

\* C2: after a connection was removed because its queue was full, the control
\* loop of its process keeps running: no later request makes it panic.
C2_HubSurvivesEviction ==
    \A c \in evicted : hubState[cproc[c]] = "running"

\* C3: whenever a user's connection set goes from non-empty to empty, by
\* whichever path, exactly one offline notification (callback and publish) is
\* emitted in that step; and when it goes from empty to non-empty, one online.
C3_NotifiedOnEveryTransition ==
    [][\A p \in Procs, u \in Users :
          /\ (ConnsOf(clients[p], u) # {} /\ ConnsOf(clients'[p], u) = {})
                => notif'[p][u] = notif[p][u] \o Transition(FALSE)
          /\ (ConnsOf(clients[p], u) = {} /\ ConnsOf(clients'[p], u) # {})
                => notif'[p][u] = notif[p][u] \o Transition(TRUE)]_vars

\* C4: as long as no queue has overflowed, the notifications of a user
\* alternate online, offline, ... starting with online: a first connection emits
\* one online (one callback, one publish), a further connection none, an
\* unregister that leaves a connection none, the last unregister one offline.
C4_PresenceAlternates ==
    [][evicted' = {} =>
        \A p \in Procs, u \in Users :
          LET k == Cardinality(ConnsOf(clients[p], u))
              k2 == Cardinality(ConnsOf(clients'[p], u))
          IN  /\ (k = 0 /\ k2 > 0) => notif'[p][u] = notif[p][u] \o Transition(TRUE)
              /\ (k > 0 /\ k2 = 0) => notif'[p][u] = notif[p][u] \o Transition(FALSE)
              /\ ((k = 0) = (k2 = 0)) => notif'[p][u] = notif[p][u]
              /\ Alternates(notif'[p][u])]_vars

\* C4 witness: user A's second connection was registered while the first was
\* open and the first then unregistered, with a single online notification.
C4_Witness ==
    /\ evicted = {}
    /\ cstate[1] = "closed" /\ cstate[2] = "active"
    /\ ConnsOf(clients[1], "A") = {2}
    /\ notif[1]["A"] = Transition(TRUE)

\* the connections a delivery of msg on process p is aimed at
Aimed(p, msg) ==
    IF TargetOf(msg) # Nil THEN ConnsOf(clients[p], TargetOf(msg))
    ELSE IF "event" \in DOMAIN msg /\ msg.event # NULL THEN AllConns(clients[p])
    ELSE {}

\* C5: a delivery is never blocked by a full queue: in the one step in which
\* the subscriber consumes a message, every aimed-at connection whose queue is
\* full (holds SendCap events; 256 in the code) is removed from the table and its queue closed (the queue untouched),
\* while every other aimed-at connection gets the event appended.
C5_FullQueueDisconnects ==
    [][\A p \in Procs :
          SubscribeStep(p) =>
               \A c \in Aimed(p, Head(bus[p])) :
                  IF Len(send[c]) >= SendCap
                  THEN /\ c \notin AllConns(clients'[p])
                       /\ closed'[c]
                       /\ send'[c] = send[c]
                  ELSE /\ c \in AllConns(clients'[p])
                       /\ ~closed'[c]
                       /\ send'[c] = Append(send[c], EventOf(Head(bus[p])))]_vars

\* C5 witness: one of user A's connections was removed with a full queue while
\* the other, still registered, holds the event of that same delivery.
C5_Witness ==
    /\ 1 \in evicted /\ closed[1] /\ Len(send[1]) = SendCap
    /\ ConnsOf(clients[1], "A") = {2}
    /\ Len(send[2]) = SendCap

\* C6: a bus message without target user id (in particular a presence event
\* published by addClient / removeClient) is enqueued by the subscriber that
\* receives it on every connection registered on its process (with room).
C6_UntargetedIsBroadcast ==
    [][\A p \in Procs :
          (SubscribeStep(p) /\ TargetOf(Head(bus[p])) = Nil) =>
             \A c \in AllConns(clients[p]) :
                Len(send[c]) < SendCap => send'[c] = Append(send[c], EventOf(Head(bus[p])))]_vars

\* C7 as stated: a subscriber receiving a message targeted at U enqueues the
\* event on each of U's connections on its process and on no other connection.
C7_TargetedReachesAll ==
    [][\A p \in Procs :
          (SubscribeStep(p) /\ TargetOf(Head(bus[p])) # Nil) =>
             \A c \in Conns :
                IF c \in ConnsOf(clients[p], TargetOf(Head(bus[p])))
                THEN send'[c] = Append(send[c], EventOf(Head(bus[p])))
                ELSE send'[c] = send[c]]_vars

\* C7 amended: ... enqueues the event on each of U's connections on its process
\* whose queue has room (one whose queue is full is removed and closed instead),
\* and no connection of another user is enqueued on, closed or removed.
C7_TargetedReachesThoseWithRoom ==
    [][\A p \in Procs :
          (SubscribeStep(p) /\ TargetOf(Head(bus[p])) # Nil) =>
             \A c \in Conns :
                IF c \in ConnsOf(clients[p], TargetOf(Head(bus[p])))
                THEN IF Len(send[c]) < SendCap
                     THEN send'[c] = Append(send[c], EventOf(Head(bus[p])))
                     ELSE send'[c] = send[c] /\ closed'[c] /\ c \notin AllConns(clients'[p])
                ELSE /\ send'[c] = send[c]
                     /\ closed'[c] = closed[c]
                     /\ \A q \in Procs : (c \in AllConns(clients'[q])) = (c \in AllConns(clients[q]))]_vars

\* C7 witness: A and B are both registered on process 1 and only A's
\* connection holds an event.
C7_Witness ==
    /\ ConnsOf(clients[1], "A") = {1} /\ ConnsOf(clients[1], "B") = {3}
    /\ send[1] # <<>> /\ send[3] = <<>>
    /\ \A i \in 1 .. Len(send[1]) : send[1][i] \in {MarshalWSEvent(e) : e \in HubEvents}
    /\ nSends = 1 /\ bus[1] = <<>>

\* C8: a call of SendToUser / SendToUsers changes nothing but the bus: the
\* table, every queue, the closed flags and the notifications are as before, so
\* when the publish fails or the bus drops the message nothing at all is left of
\* the event; and a queue only ever grows in a step of a subscriber that takes
\* the event from the bus.
C8_OnlyTheBusDelivers ==
    [][/\ SendStep =>
            /\ clients' = clients /\ send' = send /\ closed' = closed
            /\ notif' = notif /\ evicted' = evicted /\ hubState' = hubState
            /\ \A p \in Procs : SubSeq(bus'[p], 1, Len(bus[p])) = bus[p]
       /\ \A c \in Conns :
            Len(send'[c]) > Len(send[c]) =>
               \E p \in Procs : /\ SubscribeStep(p)
                                /\ send'[c] = Append(send[c], EventOf(Head(bus[p])))]_vars

\* C8 witness: an event sent to B waits on the bus of the process on which B's
\* connection is registered, and B's queue is still empty.
C8_Witness ==
    /\ nSends = 1
    /\ ConnsOf(clients[1], "B") = {3} /\ send[3] = <<>>
    /\ \E i \in 1 .. Len(bus[1]) : TargetOf(bus[1][i]) = "B"

\* the user a published or queued new_message event names as its sender
SenderOf(e) ==
    IF e # NULL /\ "type" \in DOMAIN e /\ e.type = "new_message" /\ "sender_id" \in DOMAIN e.payload
    THEN e.payload.sender_id ELSE Nil

\* the target user ids of the publishes a handler made, in order
Targets(pubs) == [i \in 1 .. Len(pubs) |-> TargetOf(pubs[i].data)]

\* the connection can hand a frame to the dispatcher
CanDispatch(c) == cstate[c] = "active" /\ ProcUp(cproc[c])

\* C9: a persisted new_message from a connection of S is published to the
\* members of the conversation other than S, in the order of the lookup, and no
\* new_message event is ever on the bus targeted at its sender, nor in a queue
\* of a connection of its sender.
C9_SenderExcluded ==
    /\ \A c \in MultiConns : CanDispatch(c) =>
         \A frame \in ChatFrames, rcvs \in [1 .. MaxFanout -> Outcomes] :
            LET w == handleWSMessage(World, cproc[c], c, UnmarshalWSEvent(frame),
                                     [persist |-> TRUE, lookup |-> TRUE], rcvs)
            IN  Targets(w.pubs) =
                  SelectSeq(MemberIDs(frame.payload.conversation_id), LAMBDA m : m # UserOf(c))
    /\ \A p \in Procs : \A i \in 1 .. Len(bus[p]) :
         SenderOf(EventOf(bus[p][i])) # Nil => TargetOf(bus[p][i]) # SenderOf(EventOf(bus[p][i]))
    /\ \A c \in Conns : \A i \in 1 .. Len(send[c]) :
         SenderOf(send[c][i]) # UserOf(c)

\* what the dispatcher does with a signaling frame from connection c: exactly
\* one publish, of the frame's type and payload unchanged, targeted at the user
\* the payload names, and no call of the message or membership store
ForwardedOnce(c) ==
    \A frame \in CallFrames, db \in StoreOutcomes, rcv \in Outcomes :
       LET w == handleWSMessage(World, cproc[c], c, UnmarshalWSEvent(frame), db, <<rcv>>) IN
       /\ Len(w.pubs) = 1
       /\ TargetOf(w.pubs[1].data) = frame.payload.to
       /\ EventOf(w.pubs[1].data) = frame
       /\ w.calls = <<"Publish">>

\* a signaling event with a target is at the head of p's channel
SignalingAtHead(p) ==
    /\ Alive(p) /\ bus[p] # <<>>
    /\ TargetOf(Head(bus[p])) # Nil
    /\ EventOf(Head(bus[p])) \in CallFrames

\* the world after p's subscriber has handled the message at the head
Received(p) == subscribeRedis([World EXCEPT !.bus[p] = Tail(@)], p, Head(bus[p]))

\* C10 as stated: a signaling frame that names B is published exactly once,
\* unchanged, targeted at B, with no lookup and no persistence call; on receipt
\* it is enqueued on every connection of B and on no connection of another user.
C10_SignalingReachesTarget ==
    /\ \A c \in MultiConns : CanDispatch(c) => ForwardedOnce(c)
    /\ \A p \in Procs : SignalingAtHead(p) =>
         \A c \in Conns :
            IF c \in ConnsOf(clients[p], TargetOf(Head(bus[p])))
            THEN Received(p).send[c] = Append(send[c], EventOf(Head(bus[p])))
            ELSE Received(p).send[c] = send[c]

\* C10 amended: ... on receipt it is enqueued on every connection of B whose
\* queue has room (one whose queue is full is removed and closed instead) and
\* on no connection of another user.
C10_SignalingReachesTargetWithRoom ==
    /\ \A c \in MultiConns : CanDispatch(c) => ForwardedOnce(c)
    /\ \A p \in Procs : SignalingAtHead(p) =>
         \A c \in Conns :
            IF c \in ConnsOf(clients[p], TargetOf(Head(bus[p])))
            THEN IF Len(send[c]) < SendCap
                 THEN Received(p).send[c] = Append(send[c], EventOf(Head(bus[p])))
                 ELSE /\ Received(p).send[c] = send[c]
                      /\ Received(p).closed[c]
                      /\ c \notin AllConns(Received(p).clients[p])
            ELSE Received(p).send[c] = send[c]

\* C10 witness: a call_offer that A's connection sent naming B is in the queue
\* of B's connection and A's queue is empty.
C10_Witness ==
    /\ cstate[1] = "active" /\ cstate[3] = "active"
    /\ send[1] = <<>>
    /\ send[3] = <<[type |-> "call_offer", payload |-> [to |-> "B", sdp |-> "s"]]>>

\* C11: an envelope of a recognized type whose payload lacks its required
\* field is dropped: its handler publishes nothing, and no queue ever holds an
\* event forwarded from such an envelope.
C11_MissingFieldDropped ==
    /\ \A c \in MultiConns : CanDispatch(c) =>
         \A frame \in MissingFrames, db \in StoreOutcomes, rcv \in Outcomes :
            handleWSMessage(World, cproc[c], c, UnmarshalWSEvent(frame), db, <<rcv, rcv>>).pubs = <<>>
    /\ \A c \in Conns : \A i \in 1 .. Len(send[c]) : send[c][i] \notin MissingFrames

\* the members of a conversation other than user u, in the order of the lookup
Others(conv, u) == SelectSeq(MemberIDs(conv), LAMBDA m : m # u)

\* the store calls a handler made, the publishes left out
StoreCalls(calls) == SelectSeq(calls, LAMBDA f : f # "Publish")

NewMessageFrames ==
    {[type |-> "new_message", payload |-> [conversation_id |-> cv, content |-> "hi"]] :
        cv \in Convs \cup {"c9"}}
      \cup {f \in MissingFrames : f.type = "new_message"}

\* C13: for a new_message envelope the persistence call is the first call made,
\* before the lookup and any publish; if it fails (store error, or the sender is
\* no member of the conversation) it is the only call: no lookup, no publish.
C13_PersistBeforePublish ==
    \A c \in MultiConns : CanDispatch(c) =>
       \A frame \in NewMessageFrames, db \in StoreOutcomes, rcv \in Outcomes :
          LET w == handleWSMessage(World, cproc[c], c, UnmarshalWSEvent(frame), db, <<rcv, rcv>>)
              cv == UUIDField(frame.payload, "conversation_id")
          IN  /\ w.calls # <<>> /\ w.calls[1] = "SendMessage"
              /\ Len(SelectSeq(w.calls, LAMBDA f : f = "SendMessage")) = 1
              /\ ~(db.persist /\ IsMember(cv, UserOf(c)))
                    => w.calls = <<"SendMessage">> /\ w.pubs = <<>> /\ w.bus = bus

\* C13 witness: the new_message event of a message of A that was persisted is
\* in the queue of B's connection.
C13_Witness ==
    /\ cstate[1] = "active" /\ cstate[3] = "active"
    /\ send[3] = <<[type |-> "new_message",
                    payload |-> [conversation_id |-> "c1", sender_id |-> "A", content |-> "hi"]]>>

\* C14: a message_read envelope from S invokes the mark-read side effect
\* first, before the lookup and any publish, and then publishes one
\* message_read event (conversation, message, user S) to each member other than
\* S; no queue of a connection of S ever holds a read receipt of S.
C14_MarkReadThenNotify ==
    /\ \A c \in Conns : CanDispatch(c) =>
         \A frame \in ReadFrames, persist \in BOOLEAN, rcvs \in [1 .. MaxFanout -> Outcomes] :
            LET w == handleWSMessage(World, cproc[c], c, UnmarshalWSEvent(frame),
                                     [persist |-> persist, lookup |-> TRUE], rcvs)
                cv == frame.payload.conversation_id
            IN  /\ w.calls = <<"MarkMessagesAsRead", "GetConversationMemberIDs">>
                                \o [i \in 1 .. Len(Others(cv, UserOf(c))) |-> "Publish"]
                /\ Targets(w.pubs) = Others(cv, UserOf(c))
                /\ \A i \in 1 .. Len(w.pubs) :
                     EventOf(w.pubs[i].data) =
                        [type |-> "message_read",
                         payload |-> [conversation_id |-> cv,
                                      message_id |-> frame.payload.message_id,
                                      user_id |-> UserOf(c)]]
    /\ \A c \in Conns : \A i \in 1 .. Len(send[c]) :
         (send[c][i].type = "message_read" /\ "user_id" \in DOMAIN send[c][i].payload)
            => send[c][i].payload.user_id # UserOf(c)

\* C14 witness: both connections of A are open with empty queues and the queue
\* of B's connection holds the read receipt of A.
C14_Witness ==
    /\ cstate[1] = "active" /\ cstate[2] = "active" /\ cstate[3] = "active"
    /\ send[1] = <<>> /\ send[2] = <<>>
    /\ send[3] = <<[type |-> "message_read",
                    payload |-> [conversation_id |-> "c1", message_id |-> "m1", user_id |-> "A"]]>>

\* C15: when the membership lookup fails while a new_message, typing,
\* stop_typing or message_read envelope is handled, nothing is published, the
\* lookup is made at most once, and the table (with the originating connection),
\* the queues and the bus are as before.
C15_LookupFailureDrops ==
    \A c \in Conns : CanDispatch(c) =>
       \A frame \in ChatFrames \cup NoticeFrames, persist \in BOOLEAN, rcv \in Outcomes :
          LET w == handleWSMessage(World, cproc[c], c, UnmarshalWSEvent(frame),
                                   [persist |-> persist, lookup |-> FALSE], <<rcv, rcv>>)
          IN  /\ w.pubs = <<>>
              /\ Len(SelectSeq(w.calls, LAMBDA f : f = "GetConversationMemberIDs")) <= 1
              /\ "Publish" \notin Range(w.calls)
              /\ w.clients = clients /\ c \in ConnsOf(w.clients[cproc[c]], UserOf(c))
              /\ w.send = send /\ w.closed = closed /\ w.bus = bus

\* C15 witness: a frame of A's connection has been handled while B was
\* connected, and nothing is on the bus or in any queue; both connections are
\* still registered.
C15_Witness ==
    /\ nSends = 2
    /\ ConnsOf(clients[1], "A") = {1} /\ ConnsOf(clients[1], "B") = {3}
    /\ cstate[1] = "active" /\ cstate[3] = "active" /\ cstate[2] = "idle"
    /\ bus[1] = <<>>
    /\ \A c \in Conns : send[c] = <<>>

Pending(c) == wire[c] \o wbuf[c] \o send[c]

\* C16: as long as the socket of a connection is open, what WritePump has
\* written, followed by the frame it is writing and by the queue, is the
\* sequence of all events enqueued, in the order they were enqueued: a step
\* leaves it as it is or adds one event (an enqueue, or the close message) at
\* its end, also while several queued events are coalesced into one frame and
\* events are enqueued meanwhile; and what was written is never changed.
C16_WireKeepsOrder ==
    [][\A c \in Conns :
          /\ sock[c] = "open" =>
               \/ Pending(c)' = Pending(c)
               \/ /\ Len(send'[c]) = Len(send[c]) + 1
                  /\ Pending(c)' = Append(Pending(c), send'[c][Len(send'[c])])
               \/ Pending(c)' = Append(Pending(c), CloseFrame)
          /\ Len(wire'[c]) >= Len(wire[c])
          /\ SubSeq(wire'[c], 1, Len(wire[c])) = wire[c]]_vars

\* C16 witness: two different events were enqueued on connection 1, coalesced
\* into one frame while a third was enqueued, and are on the wire in order.
C16_Witness ==
    /\ wire[1] = <<MarshalWSEvent(WSEvent("typing", [text |-> "t"])),
                   MarshalWSEvent(WSEvent("new_message", [text |-> "m"]))>>
    /\ send[1] = <<MarshalWSEvent(WSEvent("typing", [text |-> "t"]))>>
    /\ sock[1] = "open" /\ ~wdone[1]

\* one direction of connection c has failed: ReadPump has left its loop, or
\* WritePump has returned, or the socket is closed
Failed(c) ==
    /\ cstate[c] \in {"active", "closing", "closed"}
    /\ cstate[c] # "active" \/ wdone[c] \/ sock[c] = "closed"

\* the socket of c is closed, its unregister request was processed and the
\* table of its process does not hold it
TornDown(c) ==
    /\ cstate[c] = "closed"
    /\ sock[c] = "closed"
    /\ c \notin AllConns(clients[cproc[c]])

\* the control loop of the process connection c was accepted on is running
LoopRuns(c) == cproc[c] \in Procs /\ Alive(cproc[c])

\* C18: once a direction of a connection has failed, eventually the socket
\* is closed, the unregister request of the connection has been processed and
\* the connection is absent from the table, or the control loop of its process
\* is no longer running.
C18_FailureTearsDown ==
    \A c \in PumpConns : Failed(c) ~> (TornDown(c) \/ ~LoopRuns(c))

\* C18 witness: the write side of connection 1 failed with an event still
\* queued, and the connection was torn down with the control loop running.
C18_Witness ==
    /\ TornDown(1) /\ LoopRuns(1)
    /\ wdone[1] /\ send[1] # <<>>
    /\ wire[1] = <<>>

\* connection c is in the table of some process
InTable(c) == \E p \in Procs : c \in AllConns(clients[p])

\* a step that removes connection c from the table closes its queue
RemovalCloses(c) == (InTable(c) /\ ~InTable(c)') => closed'[c]

\* nothing is enqueued on the closed queue of c
NoEnqueueOnClosed(c) == closed[c] => Len(send'[c]) <= Len(send[c])

\* the last thing written to the socket of c is the close message
CloseWritten(c) == wire[c] # <<>> /\ wire[c][Len(wire[c])] = CloseFrame

\* the process connection c was accepted on has died of a panic
ProcessDied(c) == cproc[c] \in Procs /\ hubState[cproc[c]] = "panicked"

Cancelled(c) == cproc[c] \in Procs /\ hubState[cproc[c]] = "stopped"

\* C20: once the context is cancelled the subscriber takes nothing more from
\* the bus, and every connection in the table at that moment eventually has
\* its socket closed and is removed from the table.
C20_ShutdownDisconnectsAll ==
    /\ [][\A p \in Procs :
            hubState[p] = "stopped" => Len(bus'[p]) >= Len(bus[p])]_vars
    /\ \A c \in PumpConns :
          (Cancelled(c) /\ InTable(c)) ~> (sock[c] = "closed" /\ ~InTable(c))

\* C21: a register request for a connection that is already in the table of
\* its process leaves everything as it was: the table, the queues, the bus,
\* the presence notifications and the state of the control loop, whatever
\* the outcome of a publish would be.
C21_ConnectIdempotent ==
    \A p \in Procs : \A c \in AllConns(clients[p]) : \A rcv \in Outcomes :
        addClient(World, p, c, rcv) = World

\* C21 witness: connection 1 is registered next to another connection of the
\* same user, and registering it again changes nothing.
C21_Witness ==
    /\ clients[1] = [A |-> {1, 2}]
    /\ addClient(World, 1, 1, AliveProcs) = World

\* C22: every step that changes the table of a process is taken while a task
\* of that process holds Hub.mu exclusively, and so while no task holds it
\* shared.
C22_MutationUnderWriteGuard ==
    [][\A p \in Procs :
          clients'[p] # clients[p] =>
              /\ \E t \in Tasks : held[p][t] = "W"
              /\ Readers(p) = {}]_vars

\* C23: a frame that does not decode, or whose type the dispatcher does not
\* know, is handled without a publish, a store call or any change to the hub
\* (table, queues, bus, notifications, control loop), whatever the stores and
\* the bus would answer; and the step in which ReadPump reads such a frame
\* leaves the connection active, so that ReadPump reads the next frame.
C23_JunkFrameIgnored ==
    [][\A c \in Conns :
          /\ CanDispatch(c) =>
                \A frame \in JunkFrames, db \in StoreOutcomes, rcv \in Outcomes :
                    readFrame(World, cproc[c], c, frame, db, <<rcv, rcv>>) = World
          /\ ReadPumpJunk(c) =>
                /\ cstate'[c] = "active"
                /\ UNCHANGED <<clients, send, closed, bus, hubState, notif, evicted>>]_vars

\* C23 witness: connection 1 has read a frame, is still active, and would
\* handle a frame that does not decode without effect and a typing notice
\* with a publish.
C23_Witness ==
    /\ nSends = 1 /\ CanDispatch(1)
    /\ \A p \in Procs : bus[p] = <<>>
    /\ readFrame(World, 1, 1, [raw |-> "not json"], [persist |-> TRUE, lookup |-> TRUE],
                 <<AliveProcs, AliveProcs>>) = World
    /\ readFrame(World, 1, 1, [type |-> "typing", payload |-> [conversation_id |-> "c1"]],
                 [persist |-> TRUE, lookup |-> TRUE], <<AliveProcs, AliveProcs>>).pubs # <<>>

\* the step closes the queue of connection c a second time: c.send is closed
\* and the control loop of its process dies of close(client.send)
SecondClose(c) ==
    /\ closed[c] /\ cstate[c] = "closing" /\ cstate'[c] = "closed"
    /\ hubState[cproc[c]] = "running" /\ hubState'[cproc[c]] = "panicked"

\* C24: no step closes the queue of a connection that is already closed,
\* whatever the interleaving of unregister requests and deliveries.
C24_QueueClosedAtMostOnce ==
    [][\A c \in Conns : ~SecondClose(c)]_vars

\* C25: in every state, the queue of every connection in the table of a
\* process is open, so that a delivery, which enqueues only on connections it
\* finds in the table, never sends on a closed queue.
C25_TableHoldsOpenQueues ==
    \A p \in Procs : \A c \in AllConns(clients[p]) : ~closed[c]

\* C25 witness: connection 1 was removed by a delivery and its queue closed,
\* and connection 2 of the same user is in the table with an open queue.
C25_Witness ==
    /\ 1 \in evicted /\ closed[1]
    /\ clients[1] = [A |-> {2}] /\ ~closed[2]

\* every presence callback started for user u has run
CallbacksDone(u) == \A p \in Procs : PendingCallbacks(p, u) = {}

\* C26: once every presence callback started for a user has run, the status
\* stored last is the user's presence in the table: online iff the user has a
\* connection.
C26_StoredStatusIsPresence ==
    \A u \in Users :
        CallbacksDone(u) => (stored[u] <=> \E p \in Procs : ConnsOf(clients[p], u) # {})

\* the connections on process q that get something enqueued when the
\* subscriber of q reads message msg in the current state
EnqueuedBy(q, msg) ==
    {c \in Conns : subscribeRedis(World, q, msg).send[c] # send[c]}

\* C27: for every user id u, uuid.Nil included, what SendToUser(u, ev)
\* publishes is enqueued, on whichever process reads it, only on connections
\* owned by u.
C27_SendToUserReachesOnlyOwner ==
    \A p \in Procs : ProcUp(p) =>
        \A u \in Users \cup {Nil}, ev \in HubEvents :
            LET w == SendToUser(World, p, u, ev, AliveProcs) IN
            \A q \in AliveProcs : \A c \in EnqueuedBy(q, w.pubs[1].data) :
                UserOf(c) = u

\* user u has a connection in the table tbls holds for some process
ConnectedAnywhere(tbls, u) == \E q \in Procs : ConnsOf(tbls[q], u) # {}

\* C28: on a deployment of several processes, a step in which a process emits
\* an offline notification for u leaves u without a connection on every
\* process, and a step in which a process emits an online notification for u
\* starts with u without a connection on every process.
C28_PresenceIsGlobal ==
    [][\A p \in Procs, u \in Users :
          Len(notif'[p][u]) > Len(notif[p][u]) =>
              LET n == notif'[p][u][Len(notif'[p][u])] IN
              IF n.online THEN ~ConnectedAnywhere(clients, u)
              ELSE ~ConnectedAnywhere(clients', u)]_vars

C30_NothingBlockedAfterShutdown ==
    \A c \in PumpConns :
        /\ (Cancelled(c) /\ cstate[c] = "closing")
              ~> (cstate[c] = "closed" /\ sock[c] = "closed")
        /\ (Cancelled(c) /\ cstate[c] = "registering") ~> (cstate[c] = "active")

====
